---- MODULE Spec2Model ----
(***************************************************************************)
(* Submission validation pipeline of app_web.py: the streamed batch        *)
(* endpoints (blog_submissions_validate_stream,                            *)
(* kiro_submissions_validate_stream,                                       *)
(* kiro_submissions_validate_github_stream), the worker functions          *)
(* (validate_single_submission, validate_single_kiro_submission,           *)
(* validate_single_kiro_github), the repository verifier                   *)
(* (verify_github_repo), the article extractor (scrape_blog_metrics), the   *)
(* form endpoint blog_submissions_validate and the connection pool of      *)
(* database.py.                                                            *)
(*                                                                         *)
(* The two article streams run the same code over two tables; they are     *)
(* the kind "article".  Time is counted in whole seconds: a sleep(d) of a  *)
(* thread sets its wake-up time d seconds ahead and the thread takes no    *)
(* step before the clock reaches it.                                       *)
(***************************************************************************)
EXTENDS Integers, Sequences, FiniteSets, TLC

VARIABLES
    kind,        \* "article" or "github": which stream endpoint runs
    token,       \* os.getenv('GITHUB_TOKEN') is set
    table,       \* the stored submissions, one record per row
    world,       \* what the external sites answer for each row
    tasks,       \* per row: the state of its worker task (future)
    opc,         \* position of generate(): "init", "submit", "drain", "done"
    selected,    \* submissions_to_validate (row indices, in list order)
    queue,       \* the executor's work queue (FIFO of row indices)
    counts,      \* total_count, processed_count, validated_count, ...
    owake,       \* wake-up time of generate() after time.sleep(1)
    consumed,    \* futures as_completed has already yielded
    events,      \* the lines the generator has yielded, in order
    consumer,    \* state: "reading", or "stopped" once the caller left the
                 \* stream; left: the tasks not yet finished at that time
    now,         \* the clock, in seconds
    api,         \* history of API requests of the batch: last time, least gap
    rival,       \* a worker of another validation run that overlaps this one
    conn         \* the endpoint that runs the batch ("stream": a streamed
                 \* endpoint, "form": blog_submissions_validate) and the
                 \* connection pool: out, the tasks holding a connection, and
                 \* refused, the tasks whose getconn() found the pool exhausted

vars == <<kind, token, table, world, tasks, opc, selected, queue, counts,
          owake, consumed, events, consumer, now, api, rival, conn>>

orchVars == <<opc, selected, queue, counts, owake, consumed, events>>
\* what no step of a streamed batch changes: the endpoint, the token, the
\* answers of the outside, the worker of the other run, the connection pool
\* (an update takes and returns its connection within its step)
envVars == <<kind, token, world, rival, conn>>

-----------------------------------------------------------------------------
(* Bounds of the model *)

\* rows of the table in an ordinary batch
MaxSubs == 2
\* rows beyond the pool size in a batch that saturates the pool
ExtraTasks == 1

(* Program constants *)

\* ThreadPoolExecutor(max_workers=10) of the streamed endpoints
STREAM_WORKERS == 10
\* verify_github_repo(github_url, max_retries=3)
MAX_RETRIES == 3
\* time.sleep(min(wait_seconds + 1, 300))
RESET_WAIT_CAP == 300
\* wait_time = min(2 ** attempt, 60)
BACKOFF_CAP == 60
\* wait_time = 60 when a rate limit carries no reset time
NO_RESET_WAIT == 60
\* ThreadPoolExecutor(max_workers=20) of blog_submissions_validate
FORM_WORKERS == 20
\* create_pool(self, min_conn: int = 1, max_conn: int = 10)
POOL_MAX == 10
\* ', '.join(folder_names[:10])
FOLDER_LIST_CAP == 10
\* time.sleep(1) between progress lines when no token is configured
NO_TOKEN_DELAY == 1

\* a key an event does not carry, a header a response does not carry, a time
\* not yet set
Absent == 0 - 1

Min(a, b) == IF a <= b THEN a ELSE b
Max(a, b) == IF a >= b THEN a ELSE b

RECURSIVE Pow2(_)
Pow2(n) == IF n = 0 THEN 1 ELSE 2 * Pow2(n - 1)

-----------------------------------------------------------------------------
(* Links.  A link is modelled by what the code reads of it. *)

NoLink == "None"        \* the column is NULL
EmptyLink == ""         \* the column holds the empty string

\* The article links drawn are "https://builder.aws.com/post" and
\* "https://community.aws/post" (the two accepted host fragments) and
\* "https://example.org/post" (any other host); the repository links are
\* "https://github.com/acme/demo" (owner and repo present) and
\* "https://github.com/acme" (fewer than two path segments).

\* `if not link` (app_web.py 1381, 1519): None and '' are both falsy
Falsy(link) == link \in {NoLink, EmptyLink}

\* 'community.aws' in link or 'builder.aws.com' in link
AcceptedDomainMut(link) == ~Falsy(link)
AcceptedDomain(link) ==
    link \in {"https://builder.aws.com/post", "https://community.aws/post"}

\* A repository link as verify_github_repo reads it: whether the text starts
\* with 'http', and the text after the scheme (the whole text when there is
\* none) split at '/'
Url(link) ==
    CASE link = "https://github.com/acme/demo" ->
            [http |-> TRUE, rest |-> <<"github.com", "acme", "demo">>]
      [] link = "https://github.com/acme" ->
            [http |-> TRUE, rest |-> <<"github.com", "acme">>]
      [] link = "github.com/acme/demo" ->
            [http |-> FALSE, rest |-> <<"github.com", "acme", "demo">>]
      [] link = "https://github.com/acme/demo.git" ->
            [http |-> TRUE, rest |-> <<"github.com", "acme", "demo.git">>]
      [] link = "https://github.com/acme/demo/tree/main" ->
            [http |-> TRUE, rest |-> <<"github.com", "acme", "demo", "tree", "main">>]
      [] link = "https://github.com/acme/demo.git/tree/main" ->
            [http |-> TRUE, rest |-> <<"github.com", "acme", "demo.git", "tree", "main">>]
      [] link = "https://github.com/acme//demo/" ->
            [http |-> TRUE, rest |-> <<"github.com", "acme", "", "demo", "">>]
      [] OTHER -> [http |-> TRUE, rest |-> <<"">>]

\* the repository links drawn for a call of the verifier on its own
GithubUrls ==
    { "https://github.com/acme/demo", "https://github.com/acme",
      "github.com/acme/demo", "https://github.com/acme/demo.git",
      "https://github.com/acme/demo/tree/main",
      "https://github.com/acme/demo.git/tree/main",
      "https://github.com/acme//demo/" }

\* if not github_url.startswith('http'): github_url = 'https://' + github_url
Normalised(u) == IF u.http THEN u ELSE [u EXCEPT !.http = TRUE]

\* urlparse(github_url).path split at '/': with a scheme the first piece is
\* the host, without one the whole text is the path
UrlPath(u) == IF u.http THEN Tail(u.rest) ELSE u.rest

\* path_parts = [p for p in path.split('/') if p]
PathParts(link) ==
    SelectSeq(UrlPath(Normalised(Url(link))), LAMBDA part : part # "")

\* str.endswith('.git') and [:-4] on the segments that occur
EndsWithGit(part) == part \in {"demo.git"}

StripGit(part) == IF part = "demo.git" THEN "demo" ELSE part

\* no owner and repo: the link has fewer than two path segments
NoTarget == [owner |-> "", repo |-> ""]

\* the owner and repo verify_github_repo derives: '.git' is removed from the
\* last segment, then the segments after the second are dropped
ParseRepo(link) ==
    LET parts == PathParts(link)
        stripped == IF parts # <<>> /\ EndsWithGit(parts[Len(parts)])
                    THEN [parts EXCEPT ![Len(parts)] = StripGit(@)]
                    ELSE parts
        kept == IF Len(stripped) > 2 THEN SubSeq(stripped, 1, 2) ELSE stripped
    IN IF Len(kept) < 2 THEN NoTarget
       ELSE [owner |-> kept[1], repo |-> kept[2]]

\* len(path_parts) >= 2 after normalisation
HasOwnerAndRepo(link) == ParseRepo(link) # NoTarget

-----------------------------------------------------------------------------
(* What the external sites answer *)

NoneValue == "None"     \* Python's None for an error string

\* scrape_blog_metrics returns (likes, comments, error, is_404)
ScrapeResult(l, c, e, nf) == [likes |-> l, comments |-> c, error |-> e, is_404 |-> nf]

\* A Like or Comment button of the page as the extractor reads it: whether
\* the button is there, the text of its span of class _card-action-text and
\* the text of another span inside it ("absent": no such span)
Control(b, a, o) == [button |-> b, action |-> a, other |-> o]

NoButton == Control(FALSE, "absent", "absent")

\* str.isdigit() and int() on the span texts that occur
IsDigit(text) == text \in {"0", "1", "3"}

ToInt(text) ==
    CASE text = "0" -> 0
      [] text = "1" -> 1
      [] text = "3" -> 3

\* What loading an article link gives: how the load ends ("ok": a page is
\* there; "http404": status 404; "timeout", "connerror", "httperror": the
\* request raises Timeout, ConnectionError, HTTPError; "notool": the import
\* of the browser driver fails; "nodriver": no browser can be started;
\* "toolerror": the started browser fails; "toolerror404": it fails with a
\* message that contains the text 404; on the browser path the other
\* failures are raised by the started browser too), whether the page carries one of the not-found indications the
\* extractor looks for, and its two buttons
Page(ld, nf, lk, cm) == [load |-> ld, notfound |-> nf, like |-> lk, comment |-> cm]

\* a row whose link is never loaded
NoPage == Page("none", FALSE, NoButton, NoButton)

ErrorLoads ==
    { "timeout", "connerror", "httperror", "notool", "nodriver", "toolerror",
      "toolerror404" }

\* the count of a button on the browser path: the first numeric
\* _card-action-text span, else the first numeric span of the button, else
\* the default 0
SeleniumCountMut(ctl) ==
    IF ~ctl.button THEN Absent
    ELSE IF IsDigit(ctl.action) THEN ToInt(ctl.action)
    ELSE IF IsDigit(ctl.other) THEN ToInt(ctl.other)
    ELSE Absent
SeleniumCount(ctl) ==
    IF ~ctl.button THEN 0
    ELSE IF IsDigit(ctl.action) THEN ToInt(ctl.action)
    ELSE IF IsDigit(ctl.other) THEN ToInt(ctl.other)
    ELSE 0

\* the count of a button on the plain-request path: the _card-action-text
\* span if there is one and it is numeric; the other spans are read only when
\* there is no such span
PlainCount(ctl) ==
    IF ~ctl.button THEN 0
    ELSE IF ctl.action # "absent"
    THEN IF IsDigit(ctl.action) THEN ToInt(ctl.action) ELSE 0
    ELSE IF IsDigit(ctl.other) THEN ToInt(ctl.other)
    ELSE 0

\* 'builder.aws.com' in blog_url
UsesSelenium(blog_url) == blog_url = "https://builder.aws.com/post"

\* scrape_blog_metrics(blog_url) on a link whose load gives page.  On the
\* browser path every failure other than the failed import ends in the
\* handler of Exception; the browser shows no status code, a missing page is
\* known by its indications only
ScrapeBlogMetrics(blog_url, page) ==
    IF UsesSelenium(blog_url)
    THEN CASE page.load = "notool" ->
                ScrapeResult(0, 0, "Selenium not available", FALSE)
           [] page.load = "toolerror404" ->
                ScrapeResult(0, 0, "Selenium error: 404", FALSE)
           [] page.load \in ErrorLoads \ {"notool", "toolerror404"} ->
                ScrapeResult(0, 0, "Selenium error", FALSE)
           [] page.load \in {"ok", "http404"} /\ page.notfound ->
                ScrapeResult(0, 0, "404 Not Found", TRUE)
           [] OTHER ->
                ScrapeResult(SeleniumCount(page.like), SeleniumCount(page.comment),
                             NoneValue, FALSE)
    ELSE CASE page.load = "http404" -> ScrapeResult(0, 0, "404 Not Found", TRUE)
           [] page.load = "timeout" -> ScrapeResult(0, 0, "Request timeout", FALSE)
           [] page.load = "connerror" -> ScrapeResult(0, 0, "Connection error", FALSE)
           [] page.load = "httperror" -> ScrapeResult(0, 0, "Request error", FALSE)
           [] page.load \in {"notool", "nodriver", "toolerror"} ->
                ScrapeResult(0, 0, "Error scraping metrics", FALSE)
           [] page.load = "toolerror404" ->
                ScrapeResult(0, 0, "Error scraping metrics: 404", FALSE)
           [] page.load = "ok" /\ page.notfound ->
                ScrapeResult(0, 0, "404 Not Found", TRUE)
           [] OTHER ->
                ScrapeResult(PlainCount(page.like), PlainCount(page.comment),
                             NoneValue, FALSE)

\* the calls of one scrape_blog_metrics(blog_url) that start and end a
\* browser session, in order: webdriver.Chrome(...) succeeding is "open",
\* driver.quit() on a started browser is "quit".  The failed import and the
\* failure of every way to start the browser leave driver unset or None (the
\* handler's driver.quit() then raises and is swallowed); every later
\* failure reaches the handler of Exception, which quits; the not-found
\* return and the normal end quit before they leave
BrowserCallsMut(blog_url, page) ==
    IF ~UsesSelenium(blog_url) THEN <<>>
    ELSE CASE page.load \in {"notool", "nodriver"} -> <<>>
           [] page.load \in ErrorLoads \ {"notool", "nodriver"} -> <<"open">>
           [] page.notfound -> <<"open", "quit">>
           [] OTHER -> <<"open", "quit">>
BrowserCalls(blog_url, page) ==
    IF ~UsesSelenium(blog_url) THEN <<>>
    ELSE CASE page.load \in {"notool", "nodriver"} -> <<>>
           [] page.load \in ErrorLoads \ {"notool", "nodriver"} -> <<"open", "quit">>
           [] page.notfound -> <<"open", "quit">>
           [] OTHER -> <<"open", "quit">>

\* the buttons drawn: none, a count of 0, a count of 3, a count in a span of
\* another class, a non-numeric count beside a numeric span, no span at all
Controls ==
    { NoButton, Control(TRUE, "0", "absent"), Control(TRUE, "3", "absent"),
      Control(TRUE, "absent", "1"), Control(TRUE, "1.2K", "3"),
      Control(TRUE, "absent", "absent") }

\* every load drawn for one link: a page with its two buttons, a page with a
\* not-found indication, a 404 response (its body carries the indication),
\* and each failing load
Pages ==
    { Page("ok", FALSE, l, c) : l \in Controls, c \in Controls }
    \cup { Page("ok", TRUE, NoButton, NoButton), Page("http404", TRUE, NoButton, NoButton) }
    \cup { Page(ld, FALSE, NoButton, NoButton) : ld \in ErrorLoads }

\* the pages drawn inside a batch: counts located, no button located, a
\* not-found page, a load that times out
BatchPages ==
    { Page("ok", FALSE, Control(TRUE, "3", "absent"), Control(TRUE, "1", "absent")),
      Page("ok", FALSE, NoButton, NoButton),
      Page("ok", TRUE, NoButton, NoButton),
      Page("timeout", FALSE, NoButton, NoButton) }

\* "404" in scrape_error
Mentions404(e) ==
    e \in {"404 Not Found", "Selenium error: 404", "Error scraping metrics: 404"}

\* an item of the JSON body of a 200 answer: item.get('type'), item.get('name')
Entry(t, n) == [type |-> t, name |-> n]

\* the body of an answer: whether it is a list, the items of the root
\* listing in order, and (not part of the answer) whether the repository
\* holds a directory starting with '.kiro' below its root
Contents(isl, items, deep) == [list |-> isl, root |-> items, nested |-> deep]

NoContents == Contents(FALSE, <<>>, FALSE)

\* folder_name.startswith('.kiro') on the names that occur
StartsWithKiro(name) == name \in {".kiro", ".kiro-config"}

\* a root listing with a '.kiro' directory, and one with another directory
KiroListing == Contents(TRUE, <<Entry("dir", ".kiro")>>, FALSE)
PlainListing == Contents(TRUE, <<Entry("dir", "src")>>, FALSE)

\* the names of a listing of more directories than the reason quotes
ManyNames == <<"d01", "d02", "d03", "d04", "d05", "d06", "d07", "d08", "d09", "d10", "d11">>

\* the bodies drawn for a 200 answer: a marker directory alone and after
\* another directory, a file with the marker prefix, a marker directory
\* below the root only, no directory, nothing, eleven directories, and a
\* body that is not a list
Listings ==
    { KiroListing, PlainListing,
      Contents(TRUE, <<Entry("dir", "src"), Entry("dir", ".kiro-config")>>, FALSE),
      Contents(TRUE, <<Entry("file", ".kiro"), Entry("dir", "src")>>, FALSE),
      Contents(TRUE, <<Entry("dir", "src"), Entry("dir", "docs")>>, TRUE),
      Contents(TRUE, <<Entry("file", "README.md")>>, FALSE),
      Contents(TRUE, <<>>, FALSE),
      Contents(TRUE, [j \in 1..Len(ManyNames) |-> Entry("dir", ManyNames[j])], FALSE),
      Contents(FALSE, <<>>, FALSE) }

\* one answer of requests.get(api_url): the status code ("timeout" and
\* "neterror" stand for the two exception classes), the JSON body of a 200
\* answer, whether a 403 carries a rate-limit indication, and
\* X-RateLimit-Reset as seconds from now
Resp(st, k, r, n) == [st |-> st, contents |-> k, rate |-> r, reset |-> n]

\* reset times, in seconds after the response, that a 429 may report
ResetValues == {0, 7, 300, 400}
\* the reset times drawn for a 403 that carries a rate-limit indication
ForbiddenResets == {7, 300}

\* a rate-limit signal: 429, or 403 with 'rate limit' in its text or
\* X-RateLimit-Remaining == '0'
RateLimited(resp) == resp.st = "429" \/ (resp.st = "403" /\ resp.rate)

TerminalResponses ==
    { Resp("200", c, FALSE, Absent) : c \in Listings }
    \cup { Resp("404", NoContents, FALSE, Absent), Resp("403", NoContents, FALSE, Absent),
           Resp("500", NoContents, FALSE, Absent) }

RetryableResponses ==
    { Resp("429", NoContents, FALSE, n) : n \in ResetValues \cup {Absent} }
    \cup { Resp("403", NoContents, TRUE, n) : n \in ForbiddenResets \cup {Absent} }
    \cup { Resp("timeout", NoContents, FALSE, Absent),
           Resp("neterror", NoContents, FALSE, Absent) }

ApiResponses == TerminalResponses \cup RetryableResponses

\* every sequence of answers a call with max_retries attempts can consume
AllScripts ==
    { <<t>> : t \in TerminalResponses }
    \cup { <<r, t>> : r \in RetryableResponses, t \in TerminalResponses }
    \cup { <<r1, r2, x>> : r1 \in RetryableResponses, r2 \in RetryableResponses,
                           x \in ApiResponses }

\* the answers drawn inside a batch
BatchScripts ==
    { <<Resp("200", KiroListing, FALSE, Absent)>>,
      <<Resp("404", NoContents, FALSE, Absent)>>,
      <<Resp("timeout", NoContents, FALSE, Absent), Resp("200", PlainListing, FALSE, Absent)>> }

-----------------------------------------------------------------------------
(* Stored rows *)

\* a row of project_submission / kiro_submission as far as validation reads
\* and writes it; every row starts with the verdict of an earlier run
Row(bl, gl) ==
    [ blog_link |-> bl, github_link |-> gl,
      valid |-> TRUE, validation_reason |-> "Verified", likes |-> 9, comments |-> 9,
      github_valid |-> TRUE, github_validation_reason |-> "Valid - Found folder" ]

\* s.get('project_link') / s.get('blog_link') / s.get('github_link')
RelevantLink(k, row) == IF k = "github" THEN row.github_link ELSE row.blog_link

\* what the table's update call does for a row: commit, raise (caught and
\* logged by the worker), or raise with the logging of the handler failing too
DbOutcomes == {"ok", "error", "error_log_raises"}

\* a row of the batch together with what the outside answers for it: the
\* scraper's result, the API's answers, the outcome of the row's update
Choice(bl, gl, r, s, d) ==
    [row |-> Row(bl, gl), page |-> r, script |-> s, db |-> d]

RowChoices(k) ==
    IF k = "github"
    THEN { Choice(NoLink, l, NoPage, <<>>, "ok") : l \in {NoLink, EmptyLink} }
         \cup { Choice(NoLink, "https://github.com/acme", NoPage, <<>>, d) :
                    d \in DbOutcomes }
         \cup { Choice(NoLink, "https://github.com/acme/demo", NoPage, s, d) :
                    s \in BatchScripts, d \in DbOutcomes }
    ELSE { Choice(l, NoLink, NoPage, <<>>, "ok") : l \in {NoLink, EmptyLink} }
         \cup { Choice("https://example.org/post", NoLink, NoPage, <<>>, d) :
                    d \in DbOutcomes }
         \cup { Choice(l, NoLink, r, <<>>, d) :
                    l \in {"https://builder.aws.com/post", "https://community.aws/post"},
                    r \in BatchPages, d \in DbOutcomes }

-----------------------------------------------------------------------------
(* Worker tasks *)

Verdict(v, r, l, c) == [valid |-> v, reason |-> r, likes |-> l, comments |-> c]

\* is_valid = False; reason = "Unknown Error"; likes = 0; comments = 0
InitialVerdict == Verdict(FALSE, "Unknown Error", 0, 0)

NoPending == [st |-> "none", at |-> Absent, n |-> Absent]
NoWait == [st |-> "none", elapsed |-> Absent, n |-> Absent]
NoResp == [st |-> "none", contents |-> NoContents, rate |-> FALSE, reset |-> Absent]

\* a task before executor.submit: pc is the position of the worker function,
\* outcome what the future holds, invoked and writebacks count the calls of
\* the extractor/verifier and of the table's update.  Of the retry loop:
\* attempt, the wake-up time, the requests issued, the answers still to come,
\* the last answer, pending (when a rate-limit answer of status st with a
\* reset time n was received and retried) and waited (for the request that
\* followed such an answer: its status, the seconds
\* elapsed since it, and its n); target is the owner and repo the verifier
\* derived from the link, named the folder names its reason quotes, browser
\* the calls of the extractor that started and ended a browser session
NewTask(script) ==
    [ pc |-> "unsubmitted", outcome |-> "none", verdict |-> InitialVerdict,
      attempt |-> 0, wake |-> 0, requests |-> 0, script |-> script,
      lastResp |-> NoResp, pending |-> NoPending, waited |-> NoWait,
      invoked |-> 0, writebacks |-> 0, target |-> NoTarget, named |-> <<>>,
      browser |-> <<>> ]

InFlightPcs == {"scrape", "request", "write", "update"}

InFlight == { i \in DOMAIN tasks : tasks[i].pc \in InFlightPcs }

\* the submitted tasks that have not finished
Unfinished == { i \in DOMAIN tasks : tasks[i].pc \in InFlightPcs \cup {"queued"} }

ZeroCounts ==
    [ total |-> 0, processed |-> 0, validated |-> 0, failed |-> 0, updated |-> 0 ]

NoApi == [last |-> Absent, minGap |-> Absent]

\* no other run overlaps the batch
NoRival ==
    [ pc |-> "none", kind |-> "none", row |-> 0, page |-> NoPage,
      verdict |-> InitialVerdict, overlapped |-> FALSE, before |-> FALSE ]

\* the pool of db_manager with no connection handed out
Connections(ep) == [endpoint |-> ep, out |-> {}, refused |-> {}]

InitRun(k, tk, cfg) ==
    /\ kind = k
    /\ token = tk
    /\ table = [i \in DOMAIN cfg |-> cfg[i].row]
    /\ world = [i \in DOMAIN cfg |-> [page |-> cfg[i].page, db |-> cfg[i].db]]
    /\ tasks = [i \in DOMAIN cfg |-> NewTask(cfg[i].script)]
    /\ opc = "init"
    /\ selected = <<>>
    /\ queue = <<>>
    /\ counts = ZeroCounts
    /\ owake = 0
    /\ consumed = {}
    /\ events = <<>>
    /\ consumer = [state |-> "reading", left |-> {}]
    /\ now = 0
    /\ api = NoApi

InitBatch(k, tk, cfg) ==
    /\ conn = Connections("stream")
    /\ InitRun(k, tk, cfg)

InitWith(k, tk, cfg) == InitBatch(k, tk, cfg) /\ rival = NoRival

\* a request arrives: the table holds up to MaxSubs rows
Init ==
    \E n \in 0..MaxSubs, k \in {"article", "github"}, tk \in BOOLEAN :
        /\ k = "article" => ~tk
        /\ \E cfg \in [1..n -> RowChoices(k)] : InitWith(k, tk, cfg)

-----------------------------------------------------------------------------
(* The generator: selection, the first lines, submission *)

\* one yielded line; a key the line does not carry is Absent (summary: FALSE)
Event(st, detail, cur, tot, val, fl, upd, sum) ==
    [ status |-> st, detail |-> detail, current |-> cur, total |-> tot,
      validated |-> val, failed |-> fl, updated |-> upd, summary |-> sum ]

\* the test of the list comprehension:  if s.get('<link column>')
QualifiesMut(k, row) == TRUE
Qualifies(k, row) == ~Falsy(RelevantLink(k, row))

\* submissions_to_validate = [s for s in submissions if s.get(...)]
SubmissionsToValidate(k, tbl) ==
    SelectSeq([i \in 1..Len(tbl) |-> i], LAMBDA i : Qualifies(k, tbl[i]))

\* max_workers: 10, or for repositories  10 if github_token else 1
MaxWorkersMut(k, tk) == STREAM_WORKERS
MaxWorkers(k, tk) == IF k = "github" /\ ~tk THEN 1 ELSE STREAM_WORKERS

\* {'current': 0, 'total': 0, 'status': 'No ... to validate'}
NothingEvent ==
    Event("Nothing to validate", "", 0, 0, Absent, Absent, Absent, FALSE)

\* {'current': 0, 'total': total_count, 'status': 'Starting validation ...'}
StartEvent(tot) ==
    Event("Starting validation", "", 0, tot, Absent, Absent, Absent, FALSE)

\* generate() up to the executor: read the table, filter, return on an empty
\* selection after one line; the repository stream yields a start notice.
\* The request is taken to carry its week number and the read of the table to
\* succeed.
GenerateStartMut ==
    /\ opc = "init"
    /\ conn.endpoint = "stream"
    /\ consumer.state = "reading"
    /\ LET sel == SubmissionsToValidate(kind, table) IN
       IF Len(sel) = 0
       THEN /\ events' = Append(events, NothingEvent)
            /\ opc' = "drain"
            /\ UNCHANGED <<selected, counts>>
       ELSE /\ selected' = sel
            /\ counts' = [ZeroCounts EXCEPT !.total = Len(sel)]
            /\ events' = IF kind = "github"
                         THEN Append(events, StartEvent(Len(sel)))
                         ELSE events
            /\ opc' = "submit"
    /\ UNCHANGED <<envVars, table, tasks, queue, owake, consumed, consumer, now, api>>

GenerateStart ==
    /\ opc = "init"
    /\ conn.endpoint = "stream"
    /\ consumer.state = "reading"
    /\ LET sel == SubmissionsToValidate(kind, table) IN
       IF Len(sel) = 0
       THEN /\ events' = Append(events, NothingEvent)
            /\ opc' = "done"
            /\ UNCHANGED <<selected, counts>>
       ELSE /\ selected' = sel
            /\ counts' = [ZeroCounts EXCEPT !.total = Len(sel)]
            /\ events' = IF kind = "github"
                         THEN Append(events, StartEvent(Len(sel)))
                         ELSE events
            /\ opc' = "submit"
    /\ UNCHANGED <<envVars, table, tasks, queue, owake, consumed, consumer, now, api>>

Range(seq) == { seq[j] : j \in DOMAIN seq }

\* with ThreadPoolExecutor(...) as executor: one executor.submit per selected
\* submission, in list order
SubmitAll ==
    /\ opc = "submit"
    /\ consumer.state = "reading"
    /\ tasks' = [i \in DOMAIN tasks |->
                    IF i \in Range(selected)
                    THEN [tasks[i] EXCEPT !.pc = "queued"]
                    ELSE tasks[i]]
    /\ queue' = selected
    /\ opc' = "drain"
    /\ UNCHANGED <<envVars, table, selected, counts, owake, consumed, events,
                   consumer, now, api>>

-----------------------------------------------------------------------------
(* The worker functions *)

\* the size of the executor of the endpoint that runs the batch
Workers == IF conn.endpoint = "form" THEN FORM_WORKERS ELSE MaxWorkers(kind, token)

\* a worker thread of the pool takes the oldest queued task and runs the
\* worker function up to its first blocking call
StartTaskMut ==
    /\ queue # <<>>
    /\ consumer.state = "reading"
    /\ Cardinality(InFlight) < Workers
    /\ LET i == Head(queue)
           link == RelevantLink(kind, table[i])
           t == tasks[i]
       IN tasks' = [tasks EXCEPT ![i] =
            IF Falsy(link)
            THEN [t EXCEPT !.pc = "done", !.outcome = "returned_none"]
            ELSE IF kind = "article"
            THEN IF AcceptedDomain(link)
                 THEN [t EXCEPT !.pc = "scrape", !.invoked = @ + 1]
                 ELSE [t EXCEPT !.pc = "write",
                                !.verdict = Verdict(FALSE, "Invalid Domain", 0, 0)]
            ELSE IF HasOwnerAndRepo(link)
                 THEN [t EXCEPT !.pc = "request", !.invoked = @ + 1,
                                !.attempt = 0, !.wake = now,
                                !.target = ParseRepo(link)]
                 ELSE [t EXCEPT !.pc = "write", !.invoked = @ + 1,
                                !.verdict = Verdict(FALSE, "Invalid GitHub URL format", 0, 0)]]
    /\ queue' = Tail(queue)
    /\ UNCHANGED <<envVars, table, opc, selected, counts, owake, consumed, events,
                   consumer, now, api>>

StartTask ==
    /\ queue # <<>>
    /\ Cardinality(InFlight) < Workers
    /\ LET i == Head(queue)
           link == RelevantLink(kind, table[i])
           t == tasks[i]
       IN tasks' = [tasks EXCEPT ![i] =
            IF Falsy(link)
            THEN [t EXCEPT !.pc = "done", !.outcome = "returned_none"]
            ELSE IF kind = "article"
            THEN IF AcceptedDomain(link)
                 THEN [t EXCEPT !.pc = "scrape", !.invoked = @ + 1]
                 ELSE [t EXCEPT !.pc = "write",
                                !.verdict = Verdict(FALSE, "Invalid Domain", 0, 0)]
            ELSE IF HasOwnerAndRepo(link)
                 THEN [t EXCEPT !.pc = "request", !.invoked = @ + 1,
                                !.attempt = 0, !.wake = now,
                                !.target = ParseRepo(link)]
                 ELSE [t EXCEPT !.pc = "write", !.invoked = @ + 1,
                                !.verdict = Verdict(FALSE, "Invalid GitHub URL format", 0, 0)]]
    /\ queue' = Tail(queue)
    /\ UNCHANGED <<envVars, table, opc, selected, counts, owake, consumed, events,
                   consumer, now, api>>

\* reason = f"Verified but {scrape_error}"
VerifiedBut(e) ==
    CASE e = "Request timeout" -> "Verified but Request timeout"
      [] e = "Connection error" -> "Verified but Connection error"
      [] e = "Request error" -> "Verified but Request error"
      [] e = "Selenium not available" -> "Verified but Selenium not available"
      [] e = "Selenium error" -> "Verified but Selenium error"
      [] OTHER -> "Verified but Error scraping metrics"

\* the verdict validate_single_submission derives from the scraper's result
ArticleVerdictMut(r) ==
    Verdict(TRUE,
            IF r.error # NoneValue THEN VerifiedBut(r.error) ELSE "Verified",
            r.likes, r.comments)
ArticleVerdict(r) ==
    IF r.is_404 \/ (r.error # NoneValue /\ Mentions404(r.error))
    THEN Verdict(FALSE, "404 Not Found", 0, 0)
    ELSE Verdict(TRUE,
                 IF r.error # NoneValue THEN VerifiedBut(r.error) ELSE "Verified",
                 r.likes, r.comments)

\* scrape_blog_metrics(link) returns and the verdict is set
ScrapeReturn(i) ==
    /\ tasks[i].pc = "scrape"
    /\ tasks' = [tasks EXCEPT ![i].pc = "write",
                              ![i].verdict = ArticleVerdict(
                                  ScrapeBlogMetrics(table[i].blog_link, world[i].page)),
                              ![i].browser = BrowserCalls(table[i].blog_link,
                                                          world[i].page)]
    /\ UNCHANGED <<envVars, table, orchVars, consumer, now, api>>

-----------------------------------------------------------------------------
(* verify_github_repo: the retry loop *)

\* the test  attempt < max_retries - 1  of every retrying branch
HasRetriesLeftMut(a) == a < MAX_RETRIES
HasRetriesLeft(a) == a < MAX_RETRIES - 1

\* wait_time = min(2 ** attempt, 60), slept at the top of attempts 1, 2, ...
BackoffWait(a) == Min(Pow2(a), BACKOFF_CAP)

\* time.sleep(min(wait_seconds + 1, 300)) after a 429 with a reset time
RateLimitSleepMut(wait_seconds) == Min(wait_seconds + 1, BACKOFF_CAP)
RateLimitSleep(wait_seconds) == Min(wait_seconds + 1, RESET_WAIT_CAP)

\* return is_valid, reason  where the reason quotes the folder names nm
ReturnNaming(v, r, nm) ==
    [act |-> "return", valid |-> v, reason |-> r, sleep |-> 0, named |-> nm]

Return(v, r) == ReturnNaming(v, r, <<>>)
Continue(d) ==
    [act |-> "continue", valid |-> FALSE, reason |-> "", sleep |-> d, named |-> <<>>]

\* the names of the items of type 'dir', in the order of the listing
FolderNames(items) ==
    LET dirs == SelectSeq(items, LAMBDA item : item.type = "dir")
    IN [j \in 1..Len(dirs) |-> dirs[j].name]

\* the handling of a 200 answer: the body must be a list; the first item of
\* type 'dir' whose name starts with '.kiro' makes the repository valid;
\* otherwise the reason quotes folder_names[:10], or says there is no folder
\* a check that takes every item of the listing for a folder
CheckContentsMut(contents) ==
    IF ~contents.list
    THEN Return(FALSE, "Invalid repository structure")
    ELSE LET folder_names == [j \in 1..Len(contents.root) |-> contents.root[j].name]
             kiro == SelectSeq(folder_names, StartsWithKiro)
         IN IF kiro # <<>>
            THEN ReturnNaming(TRUE, "Valid - Found folder", <<kiro[1]>>)
            ELSE IF folder_names # <<>>
            THEN ReturnNaming(FALSE, "Invalid - No folder starting with '.kiro' found",
                              SubSeq(folder_names, 1, Min(Len(folder_names), FOLDER_LIST_CAP)))
            ELSE Return(FALSE, "Invalid - No folders found in repository root")
CheckContents(contents) ==
    IF ~contents.list
    THEN Return(FALSE, "Invalid repository structure")
    ELSE LET folder_names == FolderNames(contents.root)
             kiro == SelectSeq(folder_names, StartsWithKiro)
         IN IF kiro # <<>>
            THEN ReturnNaming(TRUE, "Valid - Found folder", <<kiro[1]>>)
            ELSE IF folder_names # <<>>
            THEN ReturnNaming(FALSE, "Invalid - No folder starting with '.kiro' found",
                              SubSeq(folder_names, 1, Min(Len(folder_names), FOLDER_LIST_CAP)))
            ELSE Return(FALSE, "Invalid - No folders found in repository root")

\* the two except clauses of the loop body, on attempt a: a timeout continues
\* without a sleep of its own, another request exception sleeps 2 ** attempt;
\* on the last attempt each returns its own reason
HandleExceptionMut(resp, a) ==
    IF resp.st = "timeout"
    THEN Return(FALSE, "Request timeout - GitHub API unreachable")
    ELSE Return(FALSE, "Network error")
HandleException(resp, a) ==
    IF resp.st = "timeout"
    THEN IF HasRetriesLeft(a)
         THEN Continue(0)
         ELSE Return(FALSE, "Request timeout - GitHub API unreachable")
    ELSE IF HasRetriesLeft(a)
         THEN Continue(Pow2(a))
         ELSE Return(FALSE, "Network error")

\* what one pass of the loop body does with the answer to its request, on
\* attempt a: return a verdict, or sleep and continue
HandleResponseMut(resp, a) ==
    CASE resp.st = "429" ->
           IF resp.reset # Absent
           THEN LET wait_seconds == Max(0, resp.reset) IN
                IF HasRetriesLeft(a)
                THEN Continue(RateLimitSleep(wait_seconds))
                ELSE Return(FALSE, "Rate limit exceeded. Reset in Ns. Add GITHUB_TOKEN")
           ELSE IF HasRetriesLeft(a)
                THEN Continue(NO_RESET_WAIT)
                ELSE Return(FALSE, "Rate limit exceeded. Please wait and try again later")
      [] resp.st = "404" -> Return(FALSE, "Repository not found")
      [] resp.st = "403" ->
           IF HasRetriesLeft(a)
           THEN Continue(NO_RESET_WAIT)
           ELSE IF resp.rate
           THEN Return(FALSE, "Rate limit exceeded. Add GITHUB_TOKEN")
           ELSE Return(FALSE, "Repository access forbidden (may be private)")
      [] resp.st = "200" -> CheckContents(resp.contents)
      [] resp.st \in {"timeout", "neterror"} -> HandleException(resp, a)
      [] OTHER -> Return(FALSE, "GitHub API error")
HandleResponse(resp, a) ==
    CASE resp.st = "429" ->
           IF resp.reset # Absent
           THEN LET wait_seconds == Max(0, resp.reset) IN
                IF HasRetriesLeft(a)
                THEN Continue(RateLimitSleep(wait_seconds))
                ELSE Return(FALSE, "Rate limit exceeded. Reset in Ns. Add GITHUB_TOKEN")
           ELSE IF HasRetriesLeft(a)
                THEN Continue(NO_RESET_WAIT)
                ELSE Return(FALSE, "Rate limit exceeded. Please wait and try again later")
      [] resp.st = "404" -> Return(FALSE, "Repository not found")
      [] resp.st = "403" ->
           IF resp.rate
           THEN IF HasRetriesLeft(a)
                THEN Continue(NO_RESET_WAIT)
                ELSE Return(FALSE, "Rate limit exceeded. Add GITHUB_TOKEN")
           ELSE Return(FALSE, "Repository access forbidden (may be private)")
      [] resp.st = "200" -> CheckContents(resp.contents)
      [] resp.st \in {"timeout", "neterror"} -> HandleException(resp, a)
      [] OTHER -> Return(FALSE, "GitHub API error")

\* 'rate limit' in reason.lower()
MentionsRateLimit(reason) ==
    reason \in { "Rate limit exceeded. Reset in Ns. Add GITHUB_TOKEN",
                 "Rate limit exceeded. Please wait and try again later",
                 "Rate limit exceeded. Add GITHUB_TOKEN" }

\* the request history of the batch after a request at time t
ApiAfter(a, t) ==
    [ last |-> t,
      minGap |-> IF a.last = Absent THEN a.minGap
                 ELSE IF a.minGap = Absent THEN t - a.last
                 ELSE Min(a.minGap, t - a.last) ]

\* one pass of  for attempt in range(max_retries):  requests.get, then the
\* handling of the answer up to the return or to the sleeps that precede the
\* next request (the sleep of the branch and the backoff at the loop top)
VerifyRequest(i) ==
    /\ tasks[i].pc = "request"
    /\ now >= tasks[i].wake
    /\ tasks[i].script # <<>>
    /\ LET t == tasks[i]
           resp == Head(t.script)
           h == HandleResponse(resp, t.attempt)
           asked == [t EXCEPT !.requests = @ + 1, !.script = Tail(@),
                              !.lastResp = resp,
                              !.waited = IF t.pending = NoPending THEN NoWait
                                         ELSE [st |-> t.pending.st,
                                               elapsed |-> now - t.pending.at,
                                               n |-> t.pending.n]]
       IN tasks' = [tasks EXCEPT ![i] =
            IF h.act = "return"
            THEN [asked EXCEPT !.pc = "write", !.pending = NoPending,
                               !.verdict = Verdict(h.valid, h.reason, 0, 0),
                               !.named = h.named]
            ELSE IF t.attempt + 1 < MAX_RETRIES
            THEN [asked EXCEPT !.attempt = @ + 1,
                               !.wake = now + h.sleep + BackoffWait(t.attempt + 1),
                               !.pending = IF RateLimited(resp) /\ resp.reset # Absent
                                           THEN [st |-> resp.st, at |-> now,
                                                 n |-> resp.reset]
                                           ELSE NoPending]
            ELSE [asked EXCEPT !.pc = "write", !.attempt = @ + 1,
                               !.wake = now + h.sleep, !.pending = NoPending,
                               !.verdict = Verdict(FALSE, "Unknown Error", 0, 0)]]
    /\ api' = ApiAfter(api, now)
    /\ UNCHANGED <<envVars, table, orchVars, consumer, now>>

-----------------------------------------------------------------------------
(* Write-back and the end of the worker function *)

\* the UPDATE of ProjectSubmission.update / KiroSubmission.update: every
\* keyword value is not None, so every column named is set
UpdateRowMut(k, row, v) ==
    IF k = "github"
    THEN [row EXCEPT !.github_valid = v.valid, !.github_validation_reason = v.reason]
    ELSE [row EXCEPT !.valid = IF v.valid THEN v.valid ELSE @,
                     !.validation_reason = v.reason,
                     !.likes = IF v.likes # 0 THEN v.likes ELSE @,
                     !.comments = IF v.comments # 0 THEN v.comments ELSE @]

UpdateRow(k, row, v) ==
    IF k = "github"
    THEN [row EXCEPT !.github_valid = v.valid, !.github_validation_reason = v.reason]
    ELSE [row EXCEPT !.valid = v.valid, !.validation_reason = v.reason,
                     !.likes = v.likes, !.comments = v.comments]

\* the try/except around the update, then the return of the result dict
WriteBackMut(i) ==
    /\ tasks[i].pc = "write"
    /\ now >= tasks[i].wake
    /\ LET db == world[i].db IN
        /\ tasks' = [tasks EXCEPT
              ![i].pc = "done",
              ![i].writebacks = IF tasks[i].verdict.valid THEN @ ELSE @ + 1,
              ![i].outcome = IF db = "error_log_raises" THEN "raised" ELSE "result"]
        /\ table' = IF db = "ok" /\ ~tasks[i].verdict.valid
                    THEN [table EXCEPT ![i] = UpdateRow(kind, @, tasks[i].verdict)]
                    ELSE table
    /\ UNCHANGED <<envVars, orchVars, consumer, now, api>>

WriteBack(i) ==
    /\ tasks[i].pc = "write"
    /\ now >= tasks[i].wake
    /\ LET db == world[i].db IN
        /\ tasks' = [tasks EXCEPT
              ![i].pc = "done",
              ![i].writebacks = @ + 1,
              ![i].outcome = IF db = "error_log_raises" THEN "raised" ELSE "result"]
        /\ table' = IF db = "ok"
                    THEN [table EXCEPT ![i] = UpdateRow(kind, @, tasks[i].verdict)]
                    ELSE table
    /\ UNCHANGED <<envVars, orchVars, consumer, now, api>>

-----------------------------------------------------------------------------
(* The generator: draining the futures *)

\* the counters after a result dict (or None) came back from future.result()
\* counters that leave an invalid verdict out of failed_count
CountResultMut(c, k, t) ==
    IF t.outcome = "returned_none"
    THEN [c EXCEPT !.processed = @ + 1]
    ELSE IF t.verdict.valid
    THEN [c EXCEPT !.processed = @ + 1, !.validated = @ + 1,
                   !.updated = IF k = "article"
                                  /\ (t.verdict.likes > 0 \/ t.verdict.comments > 0)
                               THEN @ + 1 ELSE @]
    ELSE [c EXCEPT !.processed = @ + 1]
CountResult(c, k, t) ==
    IF t.outcome = "returned_none"
    THEN [c EXCEPT !.processed = @ + 1]
    ELSE IF t.verdict.valid
    THEN [c EXCEPT !.processed = @ + 1, !.validated = @ + 1,
                   !.updated = IF k = "article"
                                  /\ (t.verdict.likes > 0 \/ t.verdict.comments > 0)
                               THEN @ + 1 ELSE @]
    ELSE [c EXCEPT !.processed = @ + 1, !.failed = @ + 1]

\* the tail of status_msg
StatusDetail(k, v) ==
    IF k = "article"
    THEN IF v.valid /\ (v.likes > 0 \/ v.comments > 0) THEN "Likes, Comments" ELSE v.reason
    ELSE IF ~v.valid /\ MentionsRateLimit(v.reason) THEN "Rate limit hit" ELSE v.reason

\* the progress line; the repository stream has no 'updated' key
ProgressEventMut(st, detail, c, k) ==
    Event(st, detail, c.processed - 1, c.total, c.validated, c.failed,
          IF k = "article" THEN c.updated ELSE Absent, FALSE)

ProgressEvent(st, detail, c, k) ==
    Event(st, detail, c.processed, c.total, c.validated, c.failed,
          IF k = "article" THEN c.updated ELSE Absent, FALSE)

\* if not github_token and processed_count < total_count: time.sleep(1)
PacingWake(k, tk, c, t) ==
    IF k = "github" /\ ~tk /\ c.processed < c.total THEN t + NO_TOKEN_DELAY ELSE t

\* one turn of  for future in as_completed(...)  whose future.result()
\* returns: count, yield the progress line, pace
ConsumeResultMut(i) ==
    /\ opc = "drain"
    /\ consumer.state = "reading"
    /\ now >= owake
    /\ i \in Range(selected) \ consumed
    /\ tasks[i].pc \in {"write", "done"}
    /\ tasks[i].outcome \in {"none", "result", "returned_none"}
    /\ LET c == CountResult(counts, kind, tasks[i]) IN
        /\ counts' = c
        /\ IF tasks[i].outcome # "returned_none"
           THEN /\ events' = Append(events,
                       ProgressEvent("Processed", StatusDetail(kind, tasks[i].verdict), c, kind))
                /\ owake' = PacingWake(kind, token, c, now)
           ELSE UNCHANGED <<events, owake>>
    /\ consumed' = consumed \cup {i}
    /\ UNCHANGED <<envVars, table, tasks, opc, selected, queue, consumer, now, api>>
ConsumeResult(i) ==
    /\ opc = "drain"
    /\ consumer.state = "reading"
    /\ now >= owake
    /\ i \in Range(selected) \ consumed
    /\ tasks[i].pc = "done"
    /\ tasks[i].outcome \in {"result", "returned_none"}
    /\ LET c == CountResult(counts, kind, tasks[i]) IN
        /\ counts' = c
        /\ IF tasks[i].outcome = "result"
           THEN /\ events' = Append(events,
                       ProgressEvent("Processed", StatusDetail(kind, tasks[i].verdict), c, kind))
                /\ owake' = PacingWake(kind, token, c, now)
           ELSE UNCHANGED <<events, owake>>
    /\ consumed' = consumed \cup {i}
    /\ UNCHANGED <<envVars, table, tasks, opc, selected, queue, consumer, now, api>>

\* one turn whose future.result() raises: the except branch
ConsumeExceptionMut(i) ==
    /\ opc = "drain"
    /\ consumer.state = "reading"
    /\ now >= owake
    /\ i \in Range(selected) \ consumed
    /\ tasks[i].pc = "done"
    /\ tasks[i].outcome = "raised"
    /\ events' = Append(events, Event("error", "", Absent, Absent, Absent, Absent, Absent, FALSE))
    /\ opc' = "done"
    /\ consumed' = consumed \cup {i}
    /\ UNCHANGED <<envVars, table, tasks, selected, queue, counts, owake, consumer, now, api>>

ConsumeException(i) ==
    /\ opc = "drain"
    /\ consumer.state = "reading"
    /\ now >= owake
    /\ i \in Range(selected) \ consumed
    /\ tasks[i].pc = "done"
    /\ tasks[i].outcome = "raised"
    /\ LET c == [counts EXCEPT !.processed = @ + 1, !.failed = @ + 1] IN
        /\ counts' = c
        /\ events' = Append(events, ProgressEvent("Error processing", "", c, kind))
    /\ consumed' = consumed \cup {i}
    /\ UNCHANGED <<envVars, table, tasks, opc, selected, queue, owake, consumer, now, api>>

\* {'current': total_count, 'total': total_count, 'status': 'Complete', 'summary': ...}
FinalEvent(tot) == Event("Complete", "", tot, tot, Absent, Absent, Absent, TRUE)

\* as_completed is exhausted, the with block is left, the summary is yielded
EmitSummary ==
    /\ opc = "drain"
    /\ consumer.state = "reading"
    /\ now >= owake
    /\ Range(selected) \subseteq consumed
    /\ events' = Append(events, FinalEvent(counts.total))
    /\ opc' = "done"
    /\ UNCHANGED <<envVars, table, tasks, selected, queue, counts, owake, consumed,
                   consumer, now, api>>

\* the caller stops reading the response while the generator is suspended at
\* a yield; the generator yields nothing more
StopConsuming ==
    /\ consumer.state = "reading"
    /\ opc \in {"submit", "drain"}
    /\ events # <<>>
    /\ consumer' = [state |-> "stopped", left |-> Unfinished]
    /\ UNCHANGED <<envVars, table, tasks, orchVars, now, api>>

-----------------------------------------------------------------------------
(* Time *)

\* the times at which a sleeping thread wakes
WakeTimes ==
    { tasks[i].wake : i \in InFlight } \cup {owake}

BatchRunning == InFlight # {} \/ queue # <<>> \/ opc \in {"submit", "drain"}

\* the clock advances to the wake-up time of a sleeping thread; between
\* sleeps the threads are taken to lose no time
Tick ==
    /\ BatchRunning
    /\ \E t \in { w \in WakeTimes : w > now } : now' = t
    /\ UNCHANGED <<envVars, table, tasks, orchVars, consumer, api>>

-----------------------------------------------------------------------------
(* Specifications *)

Next ==
    \/ GenerateStart
    \/ SubmitAll
    \/ StartTask
    \/ \E i \in DOMAIN tasks : ScrapeReturn(i)
    \/ \E i \in DOMAIN tasks : VerifyRequest(i)
    \/ \E i \in DOMAIN tasks : WriteBack(i)
    \/ \E i \in DOMAIN tasks : ConsumeResult(i)
    \/ \E i \in DOMAIN tasks : ConsumeException(i)
    \/ EmitSummary
    \/ StopConsuming
    \/ Tick

\* a batch of up to MaxSubs rows, of either kind
Spec == Init /\ [][Next]_vars

\* a call of verify_github_repo on its own: a repository batch of one row,
\* with an owner/repo link for every sequence of answers of the API, and with
\* every shape of link for the answers of a batch, run up to the return of
\* the verifier
InitVerify ==
    \/ \E tk \in BOOLEAN, s \in AllScripts :
          InitWith("github", tk,
                   <<Choice(NoLink, "https://github.com/acme/demo", NoPage, s, "ok")>>)
    \/ \E tk \in BOOLEAN, l \in GithubUrls, s \in BatchScripts :
          InitWith("github", tk, <<Choice(NoLink, l, NoPage, s, "ok")>>)

NextVerify ==
    \/ GenerateStart
    \/ SubmitAll
    \/ StartTask
    \/ \E i \in DOMAIN tasks : VerifyRequest(i)
    \/ Tick

SpecVerify == InitVerify /\ [][NextVerify]_vars

\* the batches of Spec, and batches with more rows than the pool has workers
PoolRows == STREAM_WORKERS + ExtraTasks

InitPool ==
    \/ Init
    \/ InitWith("github", TRUE,
                [i \in 1..PoolRows |->
                    Choice(NoLink, "https://github.com/acme", NoPage, <<>>, "ok")])

\* in these batches the caller reads the stream to its end
NextPool ==
    \/ GenerateStart
    \/ SubmitAll
    \/ StartTask
    \/ \E i \in DOMAIN tasks : ScrapeReturn(i)
    \/ \E i \in DOMAIN tasks : VerifyRequest(i)
    \/ \E i \in DOMAIN tasks : WriteBack(i)
    \/ \E i \in DOMAIN tasks : ConsumeResult(i)
    \/ \E i \in DOMAIN tasks : ConsumeException(i)
    \/ EmitSummary
    \/ Tick

SpecPool == InitPool /\ [][NextPool]_vars

\* the threads of the pool keep running and the clock keeps advancing,
\* whatever the generator and its caller do
WorkerStep ==
    \/ StartTask
    \/ \E i \in DOMAIN tasks : ScrapeReturn(i)
    \/ \E i \in DOMAIN tasks : VerifyRequest(i)
    \/ \E i \in DOMAIN tasks : WriteBack(i)

SpecFair == Spec /\ WF_vars(WorkerStep) /\ WF_vars(Tick)

\* an article batch of one row with an accepted link, for every load of the
\* link, read to its end
InitScrape ==
    \E l \in {"https://builder.aws.com/post", "https://community.aws/post"},
       pg \in Pages :
        InitWith("article", FALSE, <<Choice(l, NoLink, pg, <<>>, "ok")>>)

NextScrape ==
    \/ GenerateStart
    \/ SubmitAll
    \/ StartTask
    \/ \E i \in DOMAIN tasks : ScrapeReturn(i)
    \/ \E i \in DOMAIN tasks : WriteBack(i)
    \/ \E i \in DOMAIN tasks : ConsumeResult(i)
    \/ EmitSummary

SpecScrape == InitScrape /\ [][NextScrape]_vars

-----------------------------------------------------------------------------
(* A second validation run over the same table *)

\* the worker function of another run (a second request to a validation
\* endpoint) on row r, past its link and domain tests: the extractor is
\* running and will return what the page shows to that run
RivalOn(r, page) ==
    [ pc |-> "scrape", kind |-> "article", row |-> r, page |-> page,
      verdict |-> InitialVerdict, overlapped |-> FALSE, before |-> FALSE ]

\* the other run's scrape_blog_metrics(link) returns and its verdict is set;
\* overlapped records that the batch's task for the row was running then
RivalScrapeReturn ==
    /\ rival.pc = "scrape"
    /\ rival' = [rival EXCEPT !.pc = "write",
                              !.verdict = ArticleVerdict(
                                  ScrapeBlogMetrics(table[rival.row].blog_link,
                                                    rival.page)),
                              !.overlapped = tasks[rival.row].pc \in InFlightPcs]
    /\ UNCHANGED <<kind, token, world, conn, table, tasks, orchVars, consumer, now, api>>

\* the other run's ProjectSubmission.update(...) / KiroSubmission.update(...):
\* no lock is taken and no version is compared, the UPDATE names the four
\* columns; before records that the batch's task for the row had not ended
RivalWriteBackMut ==
    /\ rival.pc = "write"
    /\ rival' = [rival EXCEPT !.pc = "done",
                              !.before = tasks[rival.row].pc # "done"]
    /\ table' = [table EXCEPT ![rival.row] =
                    [UpdateRow(rival.kind, @, rival.verdict)
                        EXCEPT !.github_valid = rival.verdict.valid]]
    /\ UNCHANGED <<kind, token, world, conn, tasks, orchVars, consumer, now, api>>

RivalWriteBack ==
    /\ rival.pc = "write"
    /\ rival' = [rival EXCEPT !.pc = "done",
                              !.before = tasks[rival.row].pc # "done"]
    /\ table' = [table EXCEPT ![rival.row] = UpdateRow(rival.kind, @, rival.verdict)]
    /\ UNCHANGED <<kind, token, world, conn, tasks, orchVars, consumer, now, api>>

\* an article batch of one row with an accepted link, and another run
\* validating the same row at the same time; the page may have changed
\* between the two loads
InitOverlap ==
    \E l \in {"https://builder.aws.com/post", "https://community.aws/post"},
       r1 \in BatchPages, r2 \in BatchPages, d \in DbOutcomes :
        /\ InitBatch("article", FALSE, <<Choice(l, NoLink, r1, <<>>, d)>>)
        /\ rival = RivalOn(1, r2)

\* the steps of the article batch, and those of the other run
NextOverlap ==
    \/ GenerateStart
    \/ SubmitAll
    \/ StartTask
    \/ \E i \in DOMAIN tasks : ScrapeReturn(i)
    \/ \E i \in DOMAIN tasks : WriteBack(i)
    \/ \E i \in DOMAIN tasks : ConsumeResult(i)
    \/ \E i \in DOMAIN tasks : ConsumeException(i)
    \/ EmitSummary
    \/ StopConsuming
    \/ RivalScrapeReturn
    \/ RivalWriteBack

SpecOverlap == InitOverlap /\ [][NextOverlap]_vars

\* a repository batch over a week of two rows, the first with an article
\* link and a repository link, the second with an article link only, while a
\* worker of an article run over the same week validates the first row
InitCross ==
    \E tk \in BOOLEAN, s \in BatchScripts, r \in BatchPages, d \in {"ok", "error"} :
        /\ InitBatch("github", tk,
                     << Choice("https://community.aws/post",
                               "https://github.com/acme/demo", NoPage, s, d),
                        Choice("https://community.aws/post", NoLink, NoPage, <<>>, "ok") >>)
        /\ rival = RivalOn(1, r)

\* the steps of the repository batch, and those of the article worker
NextCross ==
    \/ GenerateStart
    \/ SubmitAll
    \/ StartTask
    \/ \E i \in DOMAIN tasks : VerifyRequest(i)
    \/ \E i \in DOMAIN tasks : WriteBack(i)
    \/ \E i \in DOMAIN tasks : ConsumeResult(i)
    \/ EmitSummary
    \/ Tick
    \/ RivalScrapeReturn
    \/ RivalWriteBack

SpecCross == InitCross /\ [][NextCross]_vars

-----------------------------------------------------------------------------
(* The form endpoint and the connection pool *)

\* blog_submissions_validate up to the drain loop: read the table, filter,
\* leave on an empty selection, else submit one task per selected submission
BlogSubmissionsValidate ==
    /\ opc = "init"
    /\ conn.endpoint = "form"
    /\ LET sel == SubmissionsToValidate(kind, table) IN
       IF Len(sel) = 0
       THEN /\ opc' = "done"
            /\ UNCHANGED <<selected, counts, tasks, queue>>
       ELSE /\ selected' = sel
            /\ counts' = [ZeroCounts EXCEPT !.total = Len(sel)]
            /\ tasks' = [i \in DOMAIN tasks |->
                            IF i \in Range(sel)
                            THEN [tasks[i] EXCEPT !.pc = "queued"]
                            ELSE tasks[i]]
            /\ queue' = sel
            /\ opc' = "drain"
    /\ UNCHANGED <<envVars, table, owake, consumed, events, consumer, now, api>>

\* the update of a worker reaches db_manager.get_connection(): getconn()
\* hands out a connection while fewer than max_conn are out and raises
\* PoolError otherwise; the error leaves execute_query, is caught and logged
\* by the worker function, which returns its result dict
GetConnection(i) ==
    /\ tasks[i].pc = "write"
    /\ now >= tasks[i].wake
    /\ IF Cardinality(conn.out) < POOL_MAX
       THEN /\ conn' = [conn EXCEPT !.out = @ \cup {i}]
            /\ tasks' = [tasks EXCEPT ![i].pc = "update", ![i].writebacks = @ + 1]
       ELSE /\ conn' = [conn EXCEPT !.refused = @ \cup {i}]
            /\ tasks' = [tasks EXCEPT ![i].pc = "done", ![i].writebacks = @ + 1,
                                      ![i].outcome = "result"]
    /\ UNCHANGED <<kind, token, world, rival, table, orchVars, consumer, now, api>>

\* the rest of execute_query: the UPDATE and the commit (or the rollback),
\* the connection returned in the finally clause, and the return of the
\* worker function
ExecuteQuery(i) ==
    /\ tasks[i].pc = "update"
    /\ conn' = [conn EXCEPT !.out = @ \ {i}]
    /\ tasks' = [tasks EXCEPT
          ![i].pc = "done",
          ![i].outcome = IF world[i].db = "error_log_raises" THEN "raised" ELSE "result"]
    /\ table' = IF world[i].db = "ok"
                THEN [table EXCEPT ![i] = UpdateRow(kind, @, tasks[i].verdict)]
                ELSE table
    /\ UNCHANGED <<kind, token, world, rival, orchVars, consumer, now, api>>

\* the tasks whose future holds a result dict with the given validity
Returned(v) ==
    { i \in Range(selected) : tasks[i].outcome = "result" /\ tasks[i].verdict.valid = v }

\* the drain loop of blog_submissions_validate and its end: the counters of
\* all futures, then the flash messages and the redirect
ValidateFinish ==
    /\ opc = "drain"
    /\ conn.endpoint = "form"
    /\ \A i \in Range(selected) : tasks[i].pc = "done"
    /\ counts' = [counts EXCEPT
          !.processed = Len(selected),
          !.validated = Cardinality(Returned(TRUE)),
          !.updated = Cardinality({ i \in Returned(TRUE) :
                                      tasks[i].verdict.likes > 0
                                      \/ tasks[i].verdict.comments > 0 }),
          !.failed = Cardinality(Returned(FALSE))
                     + Cardinality({ i \in Range(selected) : tasks[i].outcome = "raised" })]
    /\ consumed' = Range(selected)
    /\ opc' = "done"
    /\ UNCHANGED <<envVars, table, tasks, selected, queue, owake, events, consumer,
                   now, api>>

\* the rows of a batch that asks for more connections than the pool holds
ConnRows == POOL_MAX + ExtraTasks

\* a batch of ConnRows submissions whose links have another host (their
\* verdict needs no load), run by the form endpoint or by a streamed
\* endpoint, up to the end of the workers; and an empty table
InitConn ==
    \E ep \in {"form", "stream"}, n \in {0, ConnRows} :
        /\ InitRun("article", FALSE,
                   [i \in 1..n |-> Choice("https://example.org/post", NoLink, NoPage,
                                          <<>>, "ok")])
        /\ rival = NoRival
        /\ conn = Connections(ep)

NextConn ==
    \/ BlogSubmissionsValidate
    \/ GenerateStart
    \/ SubmitAll
    \/ StartTask
    \/ \E i \in DOMAIN tasks : GetConnection(i)
    \/ \E i \in DOMAIN tasks : ExecuteQuery(i)
    \/ ValidateFinish

SpecConn == InitConn /\ [][NextConn]_vars

-----------------------------------------------------------------------------
(* Properties *)

\* the rows whose relevant link is empty or missing
EmptyLinked == { i \in DOMAIN table : RelevantLink(kind, table[i]) \in {NoLink, EmptyLink} }

Last(seq) == seq[Len(seq)]

\* C1: a submission whose relevant link is empty or missing is never handed
\* to the pool, never passed to an extractor or verifier, never written back,
\* and is counted neither in total nor in the processed count.
C1_EmptyLinkNeverValidated ==
    /\ \A i \in EmptyLinked :
          /\ tasks[i].pc = "unsubmitted"
          /\ tasks[i].invoked = 0
          /\ tasks[i].writebacks = 0
          /\ i \notin Range(selected)
          /\ i \notin consumed
    /\ counts.total <= Len(table) - Cardinality(EmptyLinked)
    /\ counts.processed <= Len(table) - Cardinality(EmptyLinked)
    /\ \A j \in DOMAIN events : events[j].total <= Len(table) - Cardinality(EmptyLinked)

\* a finished batch that held a row with an empty link beside a validated row
C1_Witness ==
    /\ opc = "done"
    /\ EmptyLinked # {}
    /\ counts.processed = 1
    /\ Len(table) = 2

\* C2: within one batch every selected submission gets exactly one
\* write-back whatever its verdict: never two or more, and exactly one once
\* its task has completed.
C2_ExactlyOneWriteBack ==
    \A i \in Range(selected) :
        /\ tasks[i].writebacks <= 1
        /\ tasks[i].pc = "done" => tasks[i].writebacks = 1
        /\ tasks[i].pc \in {"queued", "scrape", "request", "write"} => tasks[i].writebacks = 0

\* a batch in which a valid and an invalid verdict have both been written
C2_Witness ==
    /\ \E i \in Range(selected) :
          tasks[i].pc = "done" /\ tasks[i].verdict.valid /\ tasks[i].writebacks = 1
    /\ \E i \in Range(selected) :
          tasks[i].pc = "done" /\ ~tasks[i].verdict.valid /\ tasks[i].writebacks = 1

\* C3: at no instant are more validation tasks in flight than the pool has
\* workers: 1 for repository validation without an API token, 10 with a
\* token and for article validation.
C3_PoolBound ==
    Cardinality(InFlight) <= (IF kind = "github" /\ ~token THEN 1 ELSE 10)

\* the pool of a repository batch with a token is full and a task waits
C3_Witness ==
    /\ kind = "github"
    /\ token
    /\ Cardinality(InFlight) = 10
    /\ queue # <<>>

C5_RetryBudget ==
    \A i \in DOMAIN tasks :
        /\ tasks[i].requests <= 3
        /\ tasks[i].requests = 3 => tasks[i].pc # "request"
        /\ ( /\ tasks[i].requests = 3
             /\ \/ tasks[i].lastResp.st = "429"
                \/ tasks[i].lastResp.st = "403" /\ tasks[i].lastResp.rate )
           => /\ ~tasks[i].verdict.valid
              /\ tasks[i].verdict.reason \in
                   { "Rate limit exceeded. Reset in Ns. Add GITHUB_TOKEN",
                     "Rate limit exceeded. Please wait and try again later",
                     "Rate limit exceeded. Add GITHUB_TOKEN" }

\* the verifier has returned after three requests, the last answered by 429
C5_Witness ==
    \E i \in DOMAIN tasks :
        /\ tasks[i].requests = 3
        /\ tasks[i].lastResp.st = "429"
        /\ tasks[i].pc = "write"

\* the consumed tasks whose future raised, and those that returned a verdict
RaisedSeen == { i \in consumed : tasks[i].outcome = "raised" }
ResultSeen == { i \in consumed : tasks[i].outcome = "result" }

\* C6: a task that raised is caught by the generator: it adds one to
\* processed and one to failed and yields a progress line for it, and the
\* batch goes on: when the generator ends, every submission of the batch has
\* been written back and reported and the last line is the summary.
C6_TaskExceptionContained ==
    /\ counts.processed = Cardinality(consumed)
    /\ counts.failed = Cardinality(RaisedSeen)
                       + Cardinality({ i \in ResultSeen : ~tasks[i].verdict.valid })
    /\ Cardinality({ j \in DOMAIN events : events[j].status = "Error processing" })
         = Cardinality(RaisedSeen)
    /\ (opc = "done" /\ selected # <<>>) =>
          /\ consumed = Range(selected)
          /\ \A i \in Range(selected) : tasks[i].pc = "done" /\ tasks[i].writebacks = 1
          /\ Cardinality({ j \in DOMAIN events : events[j].status = "Processed" })
               = Cardinality(ResultSeen)
          /\ Last(events).status = "Complete"

\* a finished batch in which one task raised and another returned a verdict
C6_Witness ==
    /\ opc = "done"
    /\ RaisedSeen # {}
    /\ ResultSeen # {}

\* the progress lines of a finished batch of n submissions, after `lead`
\* leading lines: one per submission, numbered 1..n, then the summary
ProgressThenSummary(lead, n) ==
    /\ Len(events) = lead + n + 1
    /\ \A j \in 1..n :
          /\ events[lead + j].status \in {"Processed", "Error processing"}
          /\ events[lead + j].current = j
    /\ Last(events).status = "Complete"
    /\ Last(events).summary

\* C7 as claimed: a finished batch of N >= 1 qualifying submissions has
\* yielded exactly N progress lines and then one summary, N + 1 lines in
\* all, for article and repository validation alike.
C7_ProgressPlusSummary ==
    (opc = "done" /\ counts.total >= 1) => ProgressThenSummary(0, counts.total)

\* C7 as amended: the article streams yield N progress lines and the summary
\* (N + 1 lines); the repository stream yields a start notice first, then N
\* progress lines and the summary (N + 2 lines).
C7_ProgressPlusSummaryAfterNotice ==
    (opc = "done" /\ counts.total >= 1) =>
        IF kind = "github"
        THEN /\ events[1].status = "Starting validation"
             /\ events[1].current = 0
             /\ ProgressThenSummary(1, counts.total)
        ELSE ProgressThenSummary(0, counts.total)

\* a finished repository batch of two submissions
C7_Witness ==
    /\ opc = "done"
    /\ kind = "github"
    /\ counts.total = 2

\* C8: when no submission has a qualifying link the batch yields exactly one
\* line, with total 0 and a nothing-to-validate status, and stops: no task is
\* submitted, no extractor or verifier is invoked, nothing is written back,
\* and no start notice or summary follows.
C8_NothingToValidate ==
    (opc # "init" /\ EmptyLinked = DOMAIN table) =>
        /\ opc = "done"
        /\ Len(events) = 1
        /\ events[1].status = "Nothing to validate"
        /\ events[1].total = 0
        /\ events[1].current = 0
        /\ ~events[1].summary
        /\ queue = <<>>
        /\ \A i \in DOMAIN tasks :
              tasks[i].pc = "unsubmitted" /\ tasks[i].invoked = 0 /\ tasks[i].writebacks = 0

\* the generator has ended on a table of two rows, neither with a link
C8_Witness ==
    /\ opc = "done"
    /\ Len(table) = 2
    /\ EmptyLinked = DOMAIN table
    /\ Len(events) = 1

\* C9 as claimed: in repository validation without a token any two
\* successive API requests of the batch are at least 1 second apart.
C9_OneRequestPerSecond ==
    (kind = "github" /\ ~token) => (api.minGap = Absent \/ api.minGap >= 1)

\* the caller has left the stream
CallerLeft == consumer.state = "stopped"

\* every task that was unfinished when the caller left has completed with
\* its write-back made
LeftTasksWritten ==
    \A i \in consumer.left : tasks[i].pc = "done" /\ tasks[i].writebacks = 1

\* C10: if the caller stops consuming the stream in the middle of a batch,
\* every task already submitted still runs to completion and performs its
\* write-back; none is cancelled.
C10_TasksOutliveCaller == CallerLeft ~> LeftTasksWritten

\* the caller left with two tasks unfinished and both have been written back
C10_Witness ==
    /\ CallerLeft
    /\ Cardinality(consumer.left) = 2
    /\ LeftTasksWritten

\* C11: for each submission the steps occur in a fixed order under every
\* interleaving: its extraction or verification returns, then its write-back
\* is attempted, then its progress line is yielded.  No write-back is counted
\* while the task has not reached the update, the update is attempted only
\* from the position after the extractor or verifier returned, and a task is
\* reported only once it is done with its write-back attempted.  Across
\* submissions no order is imposed.
C11_LifecycleOrder ==
    /\ [](\A i \in DOMAIN tasks :
            /\ tasks[i].pc \in {"unsubmitted", "queued", "scrape", "request", "write"}
                 => tasks[i].writebacks = 0 /\ i \notin consumed
            /\ i \in consumed => tasks[i].pc = "done" /\ tasks[i].writebacks = 1)
    /\ [][\A i \in DOMAIN tasks :
            tasks'[i].writebacks # tasks[i].writebacks =>
                /\ tasks[i].pc = "write"
                /\ tasks[i].verdict # InitialVerdict
                /\ tasks'[i].pc = "done"]_vars
    /\ [][Len(events') > Len(events) /\ Last(events').status = "Processed" =>
            \E i \in consumed' \ consumed :
                tasks[i].pc = "done" /\ tasks[i].writebacks = 1]_vars

\* the second submission of the list has been reported while the first, whose
\* extractor or verifier has been invoked, still runs
C11_Witness ==
    /\ 2 \in consumed
    /\ 1 \in Range(selected) \ consumed
    /\ tasks[1].pc \in InFlightPcs
    /\ tasks[1].invoked = 1
    /\ tasks[2].invoked = 1

\* the verdict a row stores
Stored(row) == Verdict(row.valid, row.validation_reason, row.likes, row.comments)

\* C12: two validation runs that overlap on the same submission are not
\* mutually excluded and the last write wins: each committed update replaces
\* the stored (valid, validation_reason, likes, comments) by the complete
\* verdict of the run that makes it, so after both runs finished the row
\* holds the complete verdict of the run that wrote last, never a mixture.
C12_LastWriteWins ==
    /\ [][(rival.pc = "write" /\ rival'.pc = "done")
             => Stored(table'[rival.row]) = rival.verdict]_vars
    /\ [][\A i \in DOMAIN tasks :
            (tasks[i].pc = "write" /\ tasks'[i].pc = "done" /\ world[i].db = "ok")
               => Stored(table'[i]) = tasks[i].verdict]_vars
    /\ [][\A i \in DOMAIN tasks :
            (tasks[i].pc = "write" /\ tasks'[i].pc = "done" /\ world[i].db # "ok")
               => table'[i] = table[i]]_vars
    /\ []((rival.pc = "done" /\ tasks[rival.row].pc = "done")
             => Stored(table[rival.row]) \in {tasks[rival.row].verdict, rival.verdict})

\* both runs worked on the row at the same time, reached different verdicts
\* and have finished; the row holds the verdict of the batch's task, and the
\* other run's verdict differs from it in every field
C12_Witness ==
    /\ rival.pc = "done"
    /\ rival.overlapped
    /\ tasks[rival.row].pc = "done"
    /\ world[rival.row].db = "ok"
    /\ rival.verdict.valid
    /\ rival.verdict.likes > 0
    /\ tasks[rival.row].verdict = Verdict(FALSE, "404 Not Found", 0, 0)
    /\ Stored(table[rival.row]) = tasks[rival.row].verdict

\* the rows of an article batch whose link has an accepted host and whose
\* load ends in a transient network error or a tooling error
FailedLoads ==
    { i \in DOMAIN table :
        /\ kind = "article"
        /\ AcceptedDomain(table[i].blog_link)
        /\ world[i].page.load \in ErrorLoads }

\* C13 as claimed: in article validation, when the extractor ends with a
\* transient network error or a tooling error, the verdict of the submission
\* is a failure (valid = FALSE) carrying the descriptive reason.
C13_ExtractorErrorFails ==
    \A i \in FailedLoads :
        tasks[i].pc \in {"write", "done"} => ~tasks[i].verdict.valid

\* the rows of an article batch whose link has an accepted host and whose
\* target answers 404 or shows a not-found page
NotFoundRows ==
    { i \in DOMAIN table :
        /\ kind = "article"
        /\ AcceptedDomain(table[i].blog_link)
        /\ \/ world[i].page.load = "http404"
           \/ world[i].page.load = "ok" /\ world[i].page.notfound }

ForeignRows ==
    { i \in DOMAIN table :
        /\ kind = "article"
        /\ table[i].blog_link \notin {NoLink, EmptyLink}
        /\ table[i].blog_link \notin
              {"https://builder.aws.com/post", "https://community.aws/post"} }

\* C15: a submission whose link contains neither accepted host fragment is
\* failed at once with reason "Invalid Domain": the extractor is never
\* invoked for it, the verdict valid = FALSE, likes = 0, comments = 0 is
\* still written back (once), and the submission is counted as failed.
C15_InvalidDomain ==
    /\ \A i \in ForeignRows :
          /\ tasks[i].invoked = 0
          /\ tasks[i].pc \in {"unsubmitted", "queued", "write", "done"}
          /\ tasks[i].pc \in {"write", "done"} =>
                tasks[i].verdict = Verdict(FALSE, "Invalid Domain", 0, 0)
          /\ tasks[i].pc = "done" => tasks[i].writebacks = 1
          /\ (tasks[i].pc = "done" /\ world[i].db = "ok") =>
                Stored(table[i]) = Verdict(FALSE, "Invalid Domain", 0, 0)
    /\ counts.failed >= Cardinality(consumed \cap ForeignRows)
    /\ counts.validated <= Cardinality(consumed \ ForeignRows)

\* a finished batch of a foreign link and a verified one: one failed, one
\* validated, the foreign row rewritten
C15_Witness ==
    /\ opc = "done"
    /\ Cardinality(ForeignRows) = 1
    /\ counts.failed = 1
    /\ counts.validated = 1
    /\ \E i \in ForeignRows :
          /\ i \in consumed
          /\ table[i].validation_reason = "Invalid Domain"
          /\ table[i].likes = 0

\* the rows of an article batch whose link has an accepted host and whose
\* page loads and is not a not-found page
LoadedRows ==
    { i \in DOMAIN table :
        /\ kind = "article"
        /\ table[i].blog_link \in
              {"https://builder.aws.com/post", "https://community.aws/post"}
        /\ world[i].page.load = "ok"
        /\ ~world[i].page.notfound }

\* the button is missing, or none of its spans holds a number
NotLocated(ctl) ==
    \/ ~ctl.button
    \/ ctl.action \notin {"0", "1", "3"} /\ ctl.other \notin {"0", "1", "3"}

SegmentsAfterHost(link) ==
    SelectSeq(Tail(Url(link).rest), LAMBDA part : part # "")

\* C17 as claimed: for every repository link with at least two path
\* segments, verify_github_repo derives the owner as the first non-empty
\* segment and the repo as the second with a trailing '.git' removed, all
\* further segments ignored; also for links without a scheme and for links
\* with segments after a '.git'-suffixed repo segment.
C17_OwnerRepoDerivation ==
    \A i \in DOMAIN tasks :
        ( /\ kind = "github"
          /\ tasks[i].pc \in {"request", "write", "done"}
          /\ Len(SegmentsAfterHost(table[i].github_link)) >= 2 )
        => tasks[i].target =
             [ owner |-> SegmentsAfterHost(table[i].github_link)[1],
               repo |-> IF SegmentsAfterHost(table[i].github_link)[2] = "demo.git"
                        THEN "demo"
                        ELSE SegmentsAfterHost(table[i].github_link)[2] ]


\* the tasks whose verifier returned on a 200 answer with a list as body
ListedTasks ==
    { i \in DOMAIN tasks :
        tasks[i].lastResp.st = "200" /\ tasks[i].lastResp.contents.list }

\* the positions of the root items of type directory, in listing order
RootDirs(c) == { j \in 1..Len(c.root) : c.root[j].type = "dir" }

\* the root listing holds a directory whose name starts with '.kiro'
HasKiroDir(c) ==
    \E j \in RootDirs(c) : c.root[j].name \in {".kiro", ".kiro-config"}

\* the names of the first n root directories, as a set
FirstDirNames(c, n) ==
    { c.root[j].name : j \in { k \in RootDirs(c) :
                                 Cardinality({ m \in RootDirs(c) : m <= k }) <= n } }

\* the names a reason quotes, as a set
NamesQuoted(i) == { tasks[i].named[j] : j \in 1..Len(tasks[i].named) }

TerminalStatus(resp) ==
    \/ resp.st \in {"404", "500"}
    \/ resp.st = "403" /\ ~resp.rate

\* the started verifications whose link has fewer than two path segments
ShortLinks ==
    { i \in DOMAIN tasks :
        /\ kind = "github"
        /\ tasks[i].invoked > 0
        /\ Len(SegmentsAfterHost(table[i].github_link)) < 2 }

\* C19: terminal repository outcomes are never retried: a link with fewer
\* than two path segments fails without any request, and a 404, a 403 without
\* rate-limit indication or another non-200 status makes the verifier return
\* failure in the pass that received it, on any attempt, without a sleep and
\* without a further request.
C19_TerminalNotRetried ==
    /\ [](\A i \in ShortLinks :
            /\ tasks[i].requests = 0
            /\ tasks[i].pc # "request"
            /\ ~tasks[i].verdict.valid
            /\ tasks[i].verdict.reason = "Invalid GitHub URL format")
    /\ [](\A i \in DOMAIN tasks :
            TerminalStatus(tasks[i].lastResp) =>
                /\ tasks[i].pc # "request"
                /\ ~tasks[i].verdict.valid
                /\ tasks[i].verdict.reason \in
                     { "Repository not found",
                       "Repository access forbidden (may be private)",
                       "GitHub API error" })
    /\ [][\A i \in DOMAIN tasks :
            /\ ( /\ tasks'[i].requests = tasks[i].requests + 1
                 /\ TerminalStatus(tasks'[i].lastResp) )
               => /\ tasks'[i].pc = "write"
                  /\ tasks'[i].wake = tasks[i].wake
                  /\ tasks'[i].attempt = tasks[i].attempt
                  /\ now' = now
            /\ TerminalStatus(tasks[i].lastResp)
               => tasks'[i].requests = tasks[i].requests]_vars

\* the verifier returned on a 403 without rate-limit indication that
\* answered its second request
C19_Witness ==
    \E i \in DOMAIN tasks :
        /\ tasks[i].requests = 2
        /\ tasks[i].lastResp.st = "403"
        /\ ~tasks[i].lastResp.rate
        /\ tasks[i].pc = "write"
        /\ tasks[i].attempt = 1

\* the tasks whose last request raised a timeout or another request exception
RaisedRequests ==
    { i \in DOMAIN tasks : tasks[i].lastResp.st \in {"timeout", "neterror"} }

\* C20 (as stated): a request that raises a timeout or another network
\* exception is retried while attempts remain; once the three attempts are
\* used the verifier returns failure with the "network error" reason, for
\* a timeout and for another network exception alike.
C20_NetworkErrorReason ==
    \A i \in RaisedRequests :
        /\ tasks[i].requests < 3 => tasks[i].pc = "request"
        /\ tasks[i].requests = 3 =>
              /\ tasks[i].pc # "request"
              /\ ~tasks[i].verdict.valid
              /\ tasks[i].verdict.reason = "Network error"

\* C20 (amended): a request that raises a timeout or another network
\* exception is retried while attempts remain; once the three attempts are
\* used the verifier returns failure, with the reason "Request timeout -
\* GitHub API unreachable" when the last request timed out and with the
\* "Network error" reason when it raised another network exception.
C20_ExceptionsRetried ==
    \A i \in RaisedRequests :
        /\ tasks[i].requests < 3 => tasks[i].pc = "request"
        /\ tasks[i].requests = 3 =>
              /\ tasks[i].pc # "request"
              /\ ~tasks[i].verdict.valid
              /\ tasks[i].verdict.reason =
                   IF tasks[i].lastResp.st = "timeout"
                   THEN "Request timeout - GitHub API unreachable"
                   ELSE "Network error"

\* the verifier returned after three requests, the last of which timed out
C20_Witness ==
    \E i \in RaisedRequests :
        /\ tasks[i].requests = 3
        /\ tasks[i].lastResp.st = "timeout"
        /\ tasks[i].pc = "write"
        /\ tasks[i].verdict.reason = "Request timeout - GitHub API unreachable"


\* the lines that report progress or the end of the batch
ReportLines ==
    { j \in DOMAIN events :
        events[j].status \in {"Processed", "Error processing", "Complete"} }

\* C21 as claimed: every progress line of a batch, the final one included,
\* carries current, total, validated, failed, updated and status, with the
\* cumulative counts at the time it is yielded; the final line carries these
\* and the summary.
C21_EventFields ==
    /\ \A j \in ReportLines :
          /\ events[j].current # Absent
          /\ events[j].total # Absent
          /\ events[j].validated # Absent
          /\ events[j].failed # Absent
          /\ events[j].updated # Absent
          /\ events[j].status = "Complete" => events[j].summary
    /\ (events # <<>> /\ Len(events) \in ReportLines) =>
          LET e == events[Len(events)] IN
          /\ e.total = counts.total
          /\ e.validated = counts.validated
          /\ e.failed = counts.failed
          /\ e.updated = counts.updated


\* C22 as claimed: every suspension of a batch (the waits of the page load,
\* the request, the backoff and the rate-limit pacing) happens inside a
\* worker task; the generator that drains the finished tasks and yields the
\* progress lines never sleeps: it has no wake-up time ahead of the clock,
\* and only workers have one.
C22_OrchestratorNeverSleeps ==
    /\ owake <= now
    /\ \A i \in DOMAIN tasks : tasks[i].wake > now => tasks[i].pc \in InFlightPcs


\* the requests issued after a rate-limit answer that reported a reset time
AfterReset == { i \in DOMAIN tasks : tasks[i].waited.st \in {"429", "403"} }

\* C23 as claimed: after a rate-limit answer (429, or 403 with a rate-limit
\* indication) that reports a reset time N seconds ahead, verify_github_repo
\* issues its next request only when those N seconds have elapsed, after a
\* 403 as after a 429.
C23_SleepsUntilReset ==
    \A i \in AfterReset : tasks[i].waited.elapsed >= tasks[i].waited.n


\* the number of calls c in a sequence of browser calls
CallCount(calls, c) == Cardinality({ j \in DOMAIN calls : calls[j] = c })

\* the tasks whose extractor has returned
Scraped ==
    { i \in DOMAIN tasks : kind = "article" /\ tasks[i].pc \in {"write", "done"} }

\* C24: every browser session scrape_blog_metrics opens is disposed before
\* the function returns: when the extractor has returned, on the not-found
\* path, at the normal end or after a failure of the started browser, each
\* session it opened has been quit and none is open.
C24_SessionDisposed ==
    \A i \in Scraped :
        /\ CallCount(tasks[i].browser, "open") = CallCount(tasks[i].browser, "quit")
        /\ tasks[i].browser # <<>> =>
              tasks[i].browser[Len(tasks[i].browser)] = "quit"

\* the extractor returned after its started browser failed (a wait that
\* timed out), with the session it opened quit
C24_Witness ==
    \E i \in Scraped :
        /\ world[i].page.load = "timeout"
        /\ tasks[i].verdict.reason = "Verified but Selenium error"
        /\ tasks[i].browser = <<"open", "quit">>


\* the two-tier extraction on a button: the action-text span when it holds
\* an integer, else another span of the button that holds one, else 0
TwoTier(ctl) ==
    IF ctl.button /\ ctl.action \in {"0", "1", "3"} THEN ToInt(ctl.action)
    ELSE IF ctl.button /\ ctl.other \in {"0", "1", "3"} THEN ToInt(ctl.other)
    ELSE 0

\* the rows whose extractor returned the counts of a loaded page
CountedRows ==
    { i \in DOMAIN tasks :
        /\ kind = "article"
        /\ tasks[i].pc \in {"write", "done"}
        /\ world[i].page.load = "ok"
        /\ ~world[i].page.notfound
        /\ table[i].blog_link \in {"https://builder.aws.com/post",
                                   "https://community.aws/post"} }

\* C25 as claimed: the plain-HTML extractor and the rendered-article
\* extractor apply the same two-tier extraction, so for the same button
\* markup each returns the two-tier count, also when the action-text span
\* holds no integer and another span of the button holds one.
C25_SameTwoTierExtraction ==
    \A i \in CountedRows :
        /\ tasks[i].verdict.likes = TwoTier(world[i].page.like)
        /\ tasks[i].verdict.comments = TwoTier(world[i].page.comment)


\* the lines that report one processed submission
ProgressLines ==
    { j \in DOMAIN events : events[j].status \in {"Processed", "Error processing"} }

\* the number of lines yielded before the first progress line
NoticeLines ==
    IF events # <<>> /\ events[1].status = "Starting validation" THEN 1 ELSE 0

\* C26: at every progress line of a streamed batch current is one more than
\* at the progress line before (1, 2, ..., total), current = validated +
\* failed, updated <= validated and current <= total; when the summary is
\* yielded validated + failed = total.
C26_CounterInvariants ==
    /\ \A j \in ProgressLines :
          /\ events[j].current = j - NoticeLines
          /\ events[j].current = events[j].validated + events[j].failed
          /\ events[j].updated # Absent => events[j].updated <= events[j].validated
          /\ events[j].current <= events[j].total
    /\ (events # <<>> /\ events[Len(events)].status = "Complete") =>
          /\ counts.validated + counts.failed = counts.total
          /\ Cardinality(ProgressLines) = counts.total

\* an article batch of two submissions has ended with one counted as
\* validated and updated and one counted as failed
C26_Witness ==
    /\ kind = "article"
    /\ Cardinality(ProgressLines) = 2
    /\ events[Len(events)].status = "Complete"
    /\ counts.validated = 1
    /\ counts.updated = 1
    /\ counts.failed = 1


\* the article rows whose extractor has returned and whose verdict is set
Judged ==
    { i \in DOMAIN tasks :
        /\ kind = "article"
        /\ tasks[i].invoked > 0
        /\ tasks[i].pc \in {"write", "done"} }

\* C27 as claimed: the worker function gives the verdict (invalid, "404 Not
\* Found", counts 0) only when the extractor reported is_not_found; a load
\* that ended in a browser, timeout or request error, whatever the text of
\* its message, never gives that verdict.
C27_NotFoundOnlyWhenReported ==
    \A i \in Judged :
        /\ tasks[i].verdict.reason = "404 Not Found" =>
              ScrapeBlogMetrics(table[i].blog_link, world[i].page).is_404
        /\ world[i].page.load \in {"timeout", "connerror", "httperror", "notool",
                                   "nodriver", "toolerror", "toolerror404"} =>
              tasks[i].verdict.reason # "404 Not Found"


\* C28 as claimed: during a batch the connections checked out by concurrent
\* write-backs never exceed the pool maximum of 10 and no write-back fails
\* because the pool is exhausted, for a streamed endpoint (10 workers) and
\* for the form endpoint (20 workers).
C28_PoolNeverExhausted ==
    /\ Cardinality(conn.out) <= 10
    /\ conn.refused = {}


\* the batch has ended with its summary
BatchEnded ==
    opc = "done" /\ events # <<>> /\ events[Len(events)].status = "Complete"

\* the submissions the generator counted as validated, and as failed
CountedValidated ==
    { i \in consumed : tasks[i].outcome = "result" /\ tasks[i].verdict.valid }
CountedFailed ==
    { i \in consumed : tasks[i].outcome = "raised"
                       \/ (tasks[i].outcome = "result" /\ ~tasks[i].verdict.valid) }

\* the validity a row holds for the kind of the batch
StoredValid(row) == IF kind = "github" THEN row.github_valid ELSE row.valid

\* C29 as claimed: at the end of a batch with no other writer the counters
\* agree with the table: every submission counted as validated is stored as
\* valid with the reported likes and comments, every submission counted as
\* failed is stored as not valid, and a submission whose update raised an
\* error is not counted as validated.
C29_CountersAgreeWithStorage ==
    BatchEnded =>
        /\ \A i \in CountedValidated :
              /\ StoredValid(table[i])
              /\ kind = "article" =>
                    /\ table[i].likes = tasks[i].verdict.likes
                    /\ table[i].comments = tasks[i].verdict.comments
              /\ world[i].db = "ok"
        /\ \A i \in CountedFailed : ~StoredValid(table[i])


\* the columns of a row that the article write-back sets, those that the
\* repository write-back sets, and its links
ArticleFields(row) == <<row.valid, row.validation_reason, row.likes, row.comments>>
RepositoryFields(row) == <<row.github_valid, row.github_validation_reason>>
LinkFields(row) == <<row.blog_link, row.github_link>>

\* the article worker and the repository task of the first row have both
\* made their write-back
BothWritten == rival.pc = "done" /\ tasks[1].pc = "done"

\* C30: a write-back touches only its own fields of its own record: the
\* repository write-back changes github_valid and github_validation_reason
\* of its submission only, the article write-back valid, validation_reason,
\* likes and comments only; links, the fields of the other kind and every
\* other submission stay as they are, so after an article run and a
\* repository run over the same week the record holds the article verdict
\* and the repository verdict, whichever wrote first.
C30_WriteBackFrame ==
    /\ [][\A r \in DOMAIN table :
            /\ LinkFields(table'[r]) = LinkFields(table[r])
            /\ rival' # rival =>
                  /\ RepositoryFields(table'[r]) = RepositoryFields(table[r])
                  /\ r # rival.row => table'[r] = table[r]
            /\ tasks' # tasks =>
                  /\ ArticleFields(table'[r]) = ArticleFields(table[r])
                  /\ tasks'[r] = tasks[r] => table'[r] = table[r]]_vars
    /\ [](BothWritten =>
            /\ ArticleFields(table[1]) =
                  <<rival.verdict.valid, rival.verdict.reason,
                    rival.verdict.likes, rival.verdict.comments>>
            /\ RepositoryFields(table[1]) =
                  IF world[1].db = "ok"
                  THEN <<tasks[1].verdict.valid, tasks[1].verdict.reason>>
                  ELSE <<TRUE, "Valid - Found folder">>
            /\ table[2] = Row("https://community.aws/post", NoLink))

\* both have written the first row, the article worker first, and the
\* repository verdict differs from the one stored before
C30_Witness ==
    /\ BothWritten
    /\ rival.before
    /\ world[1].db = "ok"
    /\ ~table[1].github_valid
    /\ table[1].likes = 3

====
